---- MODULE Spec2Model ----
(***************************************************************************)
(* A model of include/codegen/module_builder.hpp: the source code          *)
(* generator (listing text, line counter, indentation), the thread-local   *)
(* current builder, create_function / function_builder / call_builder and  *)
(* the value-returning return_ statement.                                  *)
(***************************************************************************)
EXTENDS Integers, Sequences, FiniteSets, TLC

(***************************************************************************)
(* Bounds of the model.                                                    *)
(***************************************************************************)
\* listing lines over all builders, one thread building (Spec)
MaxLines == 7
\* listing lines per builder, two threads building (SpecMT)
MaxLinesMT == 3
\* listing lines of the one builder of SpecThrow and SpecBuild
MaxLinesOne == 5
\* build() calls on one builder (SpecBuild)
MaxBuilds == 2
\* create_function activations on one thread's call stack
MaxDepth == 2
\* add_line calls on the generator driven directly (SpecGen)
MaxGenLines == 3
\* enter_scope / leave_scope calls on the generator driven directly (SpecGen)
MaxGenScopeOps == 4

(***************************************************************************)
(* unsigned: 32 bits, kept as two 16-bit limbs (TLC's integers are 32-bit  *)
(* signed, so 2^32 - 4 has no direct representation).                      *)
(***************************************************************************)
Limb == 256 * 256

U32(n) == [hi |-> n \div Limb, lo |-> n % Limb]

\* x + n mod 2^32, 0 <= n < 2^16
U32Add(x, n) ==
  LET s == x.lo + n
  IN  [hi |-> (x.hi + (s \div Limb)) % Limb, lo |-> s % Limb]

\* x - n mod 2^32, 0 <= n < 2^16
U32Sub(x, n) ==
  IF x.lo >= n
    THEN [hi |-> x.hi, lo |-> x.lo - n]
    ELSE [hi |-> (x.hi + Limb - 1) % Limb, lo |-> x.lo + Limb - n]

\* the value of x, for x < 2^31
U32Val(x) == x.hi * Limb + x.lo

U32Small(x) == x.hi < 32768

(***************************************************************************)
(* std::to_string of a non-negative integer.                               *)
(***************************************************************************)
Digit(d) ==
  CASE d = 0 -> "0" [] d = 1 -> "1" [] d = 2 -> "2" [] d = 3 -> "3"
    [] d = 4 -> "4" [] d = 5 -> "5" [] d = 6 -> "6" [] d = 7 -> "7"
    [] d = 8 -> "8" [] d = 9 -> "9"

RECURSIVE to_string(_)
to_string(n) == IF n < 10 THEN Digit(n) ELSE to_string(n \div 10) \o Digit(n % 10)

\* std::string(n, ' ')
RECURSIVE Spaces(_)
Spaces(n) == IF n = 0 THEN "" ELSE " " \o Spaces(n - 1)

(***************************************************************************)
(* module_builder::source_code_generator.  The text buffer is kept line    *)
(* by line: a line [indent, text] stands for indent spaces, text, "\n".    *)
(***************************************************************************)
IndentStep == 4

\* the line counter started at 0
NewGenerator_from0 == [source_code_ |-> << >>, line_no_ |-> 0, indent_ |-> U32(0)]

NewGenerator == [source_code_ |-> << >>, line_no_ |-> 1, indent_ |-> U32(0)]

\* add_line: appends the text behind the current indentation as one line,
\* returns the line number just assigned and increments the counter
add_line(g, text) ==
  [gen |-> [g EXCEPT !.source_code_ = Append(@, [indent |-> g.indent_, text |-> text]),
                     !.line_no_ = @ + 1],
   ret |-> g.line_no_]

\* a scope entered by moving the lines already written along with it
enter_scope_reindent(g) ==
  [indent_ |-> U32Add(g.indent_, 4), line_no_ |-> g.line_no_,
   source_code_ |-> [k \in DOMAIN g.source_code_ |->
                      [indent |-> U32Add(g.source_code_[k].indent, 4),
                       text |-> g.source_code_[k].text]]]

\* a scope entered by two columns
enter_scope_by2(g) == [g EXCEPT !.indent_ = U32Add(@, 2)]

enter_scope(g) == [g EXCEPT !.indent_ = U32Add(@, IndentStep)]

\* a scope left with the indentation stopping at 0
leave_scope_clamped(g) ==
  [g EXCEPT !.indent_ = IF U32Small(@) /\ U32Val(@) < 4 THEN U32(0) ELSE U32Sub(@, 4)]

\* a scope left without the indentation taken back
leave_scope_kept(g) == g

leave_scope(g) == [g EXCEPT !.indent_ = U32Sub(@, IndentStep)]

\* the line assigned last, not the line to assign next
current_line_last(g) == g.line_no_ - 1

current_line(g) == g.line_no_

\* get: the accumulated listing
get(g) == g.source_code_

\* the characters of one line of the listing
RenderLine(l) == Spaces(U32Val(l.indent)) \o l.text \o "\n"

\* the characters of a listing
RECURSIVE Render(_)
Render(ls) == IF ls = << >> THEN "" ELSE RenderLine(Head(ls)) \o Render(Tail(ls))

(***************************************************************************)
(* detail::type<T>: the host types of the registry and their names.        *)
(***************************************************************************)
TypeName(T) == IF T = "void" THEN "void" ELSE "i32"

\* the function types create_function is instantiated with, and the names
\* the functions are given
Decls ==
  { [name |-> "noop", ret |-> "void",    args |-> << >>],
    [name |-> "id",   ret |-> "int32_t", args |-> <<"int32_t">>],
    [name |-> "add",  ret |-> "int32_t", args |-> <<"int32_t", "int32_t">>] }

\* the values constant() is called with
ConstVals == {42}

Threads == {1, 2}
Builders == {1, 2}

\* the null module_builder*
Null == 0

\* the debug scope a module_builder starts with (its file)
FileScope == 0

\* llvm::DebugLoc{}
NoLoc == [line |-> 0, col |-> 0, scope |-> -1]

\* llvm::DebugLoc::get(line, col, scope)
DebugLoc(line, col, scope) == [line |-> line, col |-> col, scope |-> scope]

\* a builder build() was not called on
NotBuilt == [n |-> 0, listing |-> << >>, functions |-> 0]

VARIABLES
  owner,            \* owner[b]: the thread that constructs on builder b
  aborted,          \* an assert has failed: the process is gone
  current_builder,  \* detail::current_builder, one per thread
  stack,            \* stack[t]: the create_function activations of thread t
  gen,              \* gen[b]: source_code_ of builder b
  dbg_scope_,       \* dbg_scope_[b]
  dbg_loc,          \* the current debug location of ir_builder_ of builder b
  insert_point,     \* the function whose entry block ir_builder_ inserts into
  functions,        \* functions[b]: the functions of module_ of builder b
  emitted,          \* history: per line of gen[b], the call that appended it
  scope_calls,      \* history: the enter_scope / leave_scope calls on gen[b]
  trace,            \* history: trace[t], what thread t has emitted, in order
  last_get,         \* the text the last get() returned
  failed,           \* history: failed[b], the functions whose callback threw
  built             \* built[b]: the build() calls on builder b and their module

vars == << owner, aborted, current_builder, stack, gen, dbg_scope_, dbg_loc,
           insert_point, functions, emitted, scope_calls, trace, last_get,
           failed, built >>

lifeVars == << failed, built >>

genVars == << gen, emitted, scope_calls, trace >>
irVars == << dbg_scope_, dbg_loc, insert_point, functions >>

NoCalls == [enters |-> 0, leaves |-> 0, balanced |-> TRUE]

InitBuilders ==
  /\ aborted = FALSE
  /\ current_builder = [t \in Threads |-> Null]
  /\ stack = [t \in Threads |-> << >>]
  /\ gen = [b \in Builders |-> NewGenerator]
  /\ dbg_scope_ = [b \in Builders |-> FileScope]
  /\ dbg_loc = [b \in Builders |-> NoLoc]
  /\ insert_point = [b \in Builders |-> 0]
  /\ functions = [b \in Builders |-> << >>]
  /\ emitted = [b \in Builders |-> << >>]
  /\ scope_calls = [b \in Builders |-> NoCalls]
  /\ trace = [t \in Threads |-> << >>]
  /\ last_get = << >>
  /\ failed = [b \in Builders |-> {}]
  /\ built = [b \in Builders |-> NotBuilt]

(***************************************************************************)
(* The history of the generator calls.                                     *)
(***************************************************************************)
Opens(c) == c.enters - c.leaves

NoteLineIn(c, b, kind, fn, ret, t) ==
  Append(emitted[b], [kind |-> kind, fn |-> fn, ret |-> ret, by |-> t,
                      opens |-> Opens(c), balanced |-> c.balanced])

NoteLine(b, kind, fn, ret, t) == NoteLineIn(scope_calls[b], b, kind, fn, ret, t)

NoteEnter(c) == [c EXCEPT !.enters = @ + 1]

NoteLeave(c) == [c EXCEPT !.leaves = @ + 1,
                          !.balanced = @ /\ c.enters >= c.leaves + 1]

(***************************************************************************)
(* The source code generator driven directly (SpecGen): any sequence of    *)
(* add_line, enter_scope, leave_scope and get on the generator of builder 1.*)
(***************************************************************************)
GenTexts == {"a;", "b;"}

ScopeOps(c) == c.enters + c.leaves

GenAddLine(text) ==
  /\ Len(gen[1].source_code_) < MaxGenLines
  /\ LET r == add_line(gen[1], text)
     IN  /\ gen' = [gen EXCEPT ![1] = r.gen]
         /\ emitted' = [emitted EXCEPT ![1] = NoteLine(1, "raw", 0, r.ret, 1)]
  /\ UNCHANGED << lifeVars, owner, aborted, current_builder, stack, irVars, scope_calls,
                  trace, last_get >>

GenEnterScope ==
  /\ ScopeOps(scope_calls[1]) < MaxGenScopeOps
  /\ gen' = [gen EXCEPT ![1] = enter_scope(@)]
  /\ scope_calls' = [scope_calls EXCEPT ![1] = NoteEnter(@)]
  /\ UNCHANGED << lifeVars, owner, aborted, current_builder, stack, irVars, emitted, trace, last_get >>

GenLeaveScope ==
  /\ ScopeOps(scope_calls[1]) < MaxGenScopeOps
  /\ gen' = [gen EXCEPT ![1] = leave_scope(@)]
  /\ scope_calls' = [scope_calls EXCEPT ![1] = NoteLeave(@)]
  /\ UNCHANGED << lifeVars, owner, aborted, current_builder, stack, irVars, emitted, trace, last_get >>

GenGet ==
  /\ last_get' = get(gen[1])
  /\ UNCHANGED << lifeVars, owner, aborted, current_builder, stack, irVars, genVars >>

InitGen == InitBuilders /\ owner = [b \in Builders |-> 1]

NextGen ==
  \/ \E text \in GenTexts : GenAddLine(text)
  \/ GenEnterScope
  \/ GenLeaveScope
  \/ GenGet

SpecGen == InitGen /\ [][NextGen]_vars

(***************************************************************************)
(* The thread-local current builder, values, and the texts of the listing. *)
(***************************************************************************)
\* one current_builder shared by all threads
Slot_shared(t) == 1

\* thread_local: each thread has a current_builder of its own
Slot(t) == t

\* no guard
AssertHolds_off(cur, this) == TRUE

\* assert(detail::current_builder == this || !detail::current_builder)
AssertHolds(cur, this) == cur = this \/ cur = Null

\* value<Type>: a backend handle and a display name
Value(handle, name) == [value_ |-> handle, name_ |-> name]

NoValue == Value([kind |-> "none", fn |-> 0, idx |-> 0], "")

\* constant(v)
constant(v) == Value([kind |-> "const", fn |-> 0, idx |-> v], to_string(v))

\* detail::eval(v)
eval(v) == v.value_

\* "arg" + std::to_string(idx)
ArgName(idx) == "arg" \o to_string(idx)

\* the values call_builder hands to the callback: parameter Idx of the
\* function, named arg<Idx>, for Idx = 0 .. n-1 in this order
Params(fn, n) ==
  [k \in 1..n |-> Value([kind |-> "arg", fn |-> fn, idx |-> k - 1], ArgName(k - 1))]

\* the separator written after every parameter, the last one too
RECURSIVE ParamList_trailing(_, _)
ParamList_trailing(args, i) ==
  IF i >= Len(args) THEN ""
  ELSE TypeName(args[i + 1]) \o " arg" \o to_string(i) \o ", "
         \o ParamList_trailing(args, i + 1)

\* the fold of call_builder over the parameters Idx = i .. n-1
RECURSIVE ParamList(_, _)
ParamList(args, i) ==
  IF i >= Len(args) THEN ""
  ELSE TypeName(args[i + 1]) \o " arg" \o to_string(i)
         \o (IF i + 1 = Len(args) THEN "" ELSE ", ")
         \o ParamList(args, i + 1)

\* the declaration line of call_builder
DeclText(d) == TypeName(d.ret) \o " " \o d.name \o "(" \o ParamList(d.args, 0) \o ") {"

\* fmt::format("return {};", v)
ReturnText(v) == "return " \o v.name_ \o ";"

\* one entry of trace[t]
Emit(op, d, v) == [op |-> op, d |-> d, v |-> v]

(***************************************************************************)
(* The create_function activations of a thread.                            *)
(***************************************************************************)
NewFrame(this, prev, d) ==
  [this |-> this, prev_builder |-> prev, decl |-> d, pc |-> "fb",
   scope_at_call |-> dbg_scope_[this], indent_at_call |-> gen[this].indent_,
   mb |-> Null, fn |-> 0, parent_scope |-> FileScope,
   cb_mb |-> Null, params |-> << >>,
   ret_mb |-> Null, line_no |-> 0, v |-> NoValue, failed_in |-> {}]

Top(t) == stack[t][Len(stack[t])]

SetTop(t, f) == [stack EXCEPT ![t] = [@ EXCEPT ![Len(@)] = f]]

Push(t, f) == [stack EXCEPT ![t] = Append(@, f)]

Pop(t) == [stack EXCEPT ![t] = SubSeq(@, 1, Len(@) - 1)]

AtPc(t, pc) == stack[t] # << >> /\ Top(t).pc = pc

\* the lines the activations of t have still to append
RECURSIVE Needed(_)
Needed(fs) ==
  IF fs = << >> THEN 0
  ELSE (CASE Head(fs).pc \in {"fb", "cb"} -> 2
          [] Head(fs).pc \in {"body", "ret_loc", "ret_emit"} -> 1
          [] OTHER -> 0) + Needed(Tail(fs))

RECURSIVE SumLines(_)
SumLines(bs) ==
  IF bs = {} THEN 0
  ELSE LET b == CHOOSE x \in bs : TRUE
       IN  Len(gen[b].source_code_) + SumLines(bs \ {b})

Owned(t) == {b \in Builders : owner[b] = t}

\* the owner of a builder no thread constructs on
Nobody == CHOOSE t \in 0..Cardinality(Threads) : t \notin Threads

Limit ==
  IF \E t \in Threads : Owned(t) = Builders THEN MaxLines
  ELSE IF \E b \in Builders : owner[b] = Nobody THEN MaxLinesOne
  ELSE MaxLinesMT

Room(t, n) == SumLines(Owned(t)) + Needed(stack[t]) + n <= Limit

\* the values a callback can return: its parameters and constants
Values(f) == {f.params[k] : k \in 1..Len(f.params)} \cup {constant(c) : c \in ConstVals}

Returnable(t) == IF stack[t] = << >> THEN {} ELSE Values(Top(t))

(***************************************************************************)
(* module_builder::create_function, lines 226-227                          *)
(***************************************************************************)
CanCall(t, b) ==
  /\ ~aborted
  /\ owner[b] = t
  /\ IF stack[t] = << >> THEN TRUE ELSE Top(t).pc = "body"

CreateFunction(t, b, d) ==
  /\ CanCall(t, b)
  /\ Len(stack[t]) < MaxDepth
  /\ Room(t, 2)
  /\ AssertHolds(current_builder[Slot(t)], b)
  /\ stack' = Push(t, NewFrame(b, current_builder[Slot(t)], d))
  /\ current_builder' = [current_builder EXCEPT ![Slot(t)] = b]
  /\ UNCHANGED << lifeVars, owner, aborted, irVars, genVars, last_get >>

CreateFunctionAssertFails(t, b) ==
  /\ CanCall(t, b)
  /\ ~AssertHolds(current_builder[Slot(t)], b)
  /\ aborted' = TRUE
  /\ UNCHANGED << lifeVars, owner, current_builder, stack, irVars, genVars, last_get >>

(***************************************************************************)
(* function_builder::operator(), lines 196-212                             *)
(***************************************************************************)
\* the number of lines appended so far given to createFunction
SubprogramLine_count(g) == Len(g.source_code_)

\* the line given to createFunction
SubprogramLine(g) == current_line(g)

\* the debug location of the builder left as it was
EntryLoc_kept(cur) == cur

\* SetCurrentDebugLocation(llvm::DebugLoc{}): the location the callback starts with
EntryLoc(cur) == NoLoc

\* the insertion point left where it was
EntryBlock_kept(fn, cur) == cur

\* BasicBlock::Create(.., "entry", fn), SetInsertPoint(block)
EntryBlock(fn, cur) == fn

NewFunction(d, scope, line) ==
  [name |-> d.name, ret |-> d.ret, args |-> d.args,
   arg_names |-> [k \in 1..Len(d.args) |-> ""],
   subprogram |-> [scope |-> scope, name |-> d.name, line |-> line, scope_line |-> line],
   entry |-> << >>]

FunctionBuilderBegin(t) ==
  /\ ~aborted
  /\ AtPc(t, "fb")
  /\ LET mb == current_builder[Slot(t)]
         fn == Len(functions[mb]) + 1
     IN  /\ functions' = [functions EXCEPT ![mb] =
                            Append(@, NewFunction(Top(t).decl, dbg_scope_[mb],
                                                  SubprogramLine(gen[mb])))]
         /\ dbg_scope_' = [dbg_scope_ EXCEPT ![mb] = fn]
         /\ dbg_loc' = [dbg_loc EXCEPT ![mb] = EntryLoc(@)]
         /\ insert_point' = [insert_point EXCEPT ![mb] = EntryBlock(fn, @)]
         /\ stack' = SetTop(t, [Top(t) EXCEPT !.mb = mb, !.fn = fn,
                                              !.parent_scope = dbg_scope_[mb],
                                              !.pc = "cb"])
  /\ UNCHANGED << lifeVars, owner, aborted, current_builder, genVars, last_get >>

(***************************************************************************)
(* function_builder::call_builder, lines 176-187: the declaration line,    *)
(* the scope, the parameters, the call of the callback                     *)
(***************************************************************************)
CallBuilderBegin(t) ==
  /\ ~aborted
  /\ AtPc(t, "cb")
  /\ LET mb == current_builder[Slot(t)]
         f  == Top(t)
         r  == add_line(gen[mb], DeclText(f.decl))
         n  == Len(f.decl.args)
     IN  /\ gen' = [gen EXCEPT ![mb] = enter_scope(r.gen)]
         /\ emitted' = [emitted EXCEPT ![mb] = NoteLine(mb, "decl", f.fn, r.ret, t)]
         /\ scope_calls' = [scope_calls EXCEPT ![mb] = NoteEnter(@)]
         /\ trace' = [trace EXCEPT ![t] = Append(@, Emit("decl", f.decl, NoValue))]
         /\ functions' = [functions EXCEPT ![f.mb][f.fn].arg_names =
                            [k \in 1..n |-> ArgName(k - 1)]]
         /\ stack' = SetTop(t, [f EXCEPT !.cb_mb = mb, !.params = Params(f.fn, n),
                                        !.pc = "body"])
  /\ UNCHANGED << lifeVars, owner, aborted, current_builder, dbg_scope_, dbg_loc,
                  insert_point, last_get >>

(***************************************************************************)
(* return_(Value v), lines 156-159, one step per statement of it           *)
(***************************************************************************)
ReturnAddLine(t, v) ==
  /\ ~aborted
  /\ AtPc(t, "body")
  /\ v \in Returnable(t)
  /\ Room(t, 1)
  /\ LET mb == current_builder[Slot(t)]
         r  == add_line(gen[mb], ReturnText(v))
     IN  /\ gen' = [gen EXCEPT ![mb] = r.gen]
         /\ emitted' = [emitted EXCEPT ![mb] = NoteLine(mb, "stmt", Top(t).fn, r.ret, t)]
         /\ trace' = [trace EXCEPT ![t] = Append(@, Emit("stmt", Top(t).decl, v))]
         /\ stack' = SetTop(t, [Top(t) EXCEPT !.ret_mb = mb, !.line_no = r.ret,
                                              !.v = v, !.pc = "ret_loc"])
  /\ UNCHANGED << lifeVars, owner, aborted, current_builder, irVars, scope_calls, last_get >>

\* current_line() read after the line was appended
ReturnLocLine_after(line_no, g) == current_line(g)

\* the line of the debug location of the statement
ReturnLocLine(line_no, g) == line_no

ReturnSetLoc(t) ==
  /\ ~aborted
  /\ AtPc(t, "ret_loc")
  /\ LET f == Top(t)
     IN  /\ dbg_loc' = [dbg_loc EXCEPT ![f.ret_mb] =
                          DebugLoc(ReturnLocLine(f.line_no, gen[f.ret_mb]), 1,
                                   dbg_scope_[f.ret_mb])]
         /\ stack' = SetTop(t, [f EXCEPT !.pc = "ret_emit"])
  /\ UNCHANGED << lifeVars, owner, aborted, current_builder, dbg_scope_, insert_point,
                  functions, genVars, last_get >>

\* IRBuilder::CreateRet: the instruction goes to the end of the block of the
\* insertion point and carries the current debug location
CreateRet(b, handle) ==
  [functions EXCEPT ![b][insert_point[b]].entry =
     Append(@, [op |-> "ret", value |-> handle, loc |-> dbg_loc[b]])]

ReturnCreateRet(t) ==
  /\ ~aborted
  /\ AtPc(t, "ret_emit")
  /\ LET f == Top(t)
     IN  /\ insert_point[f.ret_mb] # 0
         /\ functions' = CreateRet(f.ret_mb, eval(f.v))
         /\ stack' = SetTop(t, [f EXCEPT !.ret_mb = Null, !.line_no = 0,
                                        !.v = NoValue, !.pc = "body"])
  /\ UNCHANGED << lifeVars, owner, aborted, current_builder, dbg_scope_, dbg_loc,
                  insert_point, genVars, last_get >>

(***************************************************************************)
(* The callback returns: call_builder, lines 189-190                       *)
(***************************************************************************)
CallBuilderEnd(t) ==
  /\ ~aborted
  /\ AtPc(t, "body")
  /\ LET f  == Top(t)
         mb == f.cb_mb
         r  == add_line(leave_scope(gen[mb]), "}")
     IN  /\ gen' = [gen EXCEPT ![mb] = r.gen]
         /\ scope_calls' = [scope_calls EXCEPT ![mb] = NoteLeave(@)]
         /\ emitted' = [emitted EXCEPT ![mb] =
                          NoteLineIn(NoteLeave(scope_calls[mb]), mb, "close", f.fn, r.ret, t)]
         /\ trace' = [trace EXCEPT ![t] = Append(@, Emit("close", f.decl, NoValue))]
         /\ stack' = SetTop(t, [f EXCEPT !.pc = "fb_end"])
  /\ UNCHANGED << lifeVars, owner, aborted, current_builder, irVars, last_get >>

(***************************************************************************)
(* function_builder::operator(), lines 216-218                             *)
(***************************************************************************)
\* the file scope put back, not the saved scope
RestoredScope_file(f) == FileScope

\* the scope put back into dbg_scope_
RestoredScope(f) == f.parent_scope

FunctionBuilderEnd(t) ==
  /\ ~aborted
  /\ AtPc(t, "fb_end")
  /\ dbg_scope_' = [dbg_scope_ EXCEPT ![Top(t).mb] = RestoredScope(Top(t))]
  /\ stack' = SetTop(t, [Top(t) EXCEPT !.pc = "cf_end"])
  /\ UNCHANGED << lifeVars, owner, aborted, current_builder, dbg_loc, insert_point,
                  functions, genVars, last_get >>

(***************************************************************************)
(* module_builder::create_function, lines 229-230                          *)
(***************************************************************************)
\* the context cleared, not put back
RestoredBuilder_null(f) == Null

\* the builder put back into detail::current_builder
RestoredBuilder(f) == f.prev_builder

CreateFunctionEnd(t) ==
  /\ ~aborted
  /\ AtPc(t, "cf_end")
  /\ current_builder' = [current_builder EXCEPT ![Slot(t)] = RestoredBuilder(Top(t))]
  /\ stack' = Pop(t)
  /\ UNCHANGED << lifeVars, owner, aborted, irVars, genVars, last_get >>

(***************************************************************************)
(* The specifications.  Spec: one thread constructing on two builders.     *)
(* SpecMT: two threads, each constructing on a builder of its own.         *)
(***************************************************************************)
Init == InitBuilders /\ owner = [b \in Builders |-> 1]

InitMT == InitBuilders /\ owner = [b \in Builders |-> b]

Next ==
  \E t \in Threads :
    \/ \E b \in Builders, d \in Decls : CreateFunction(t, b, d)
    \/ \E b \in Builders : CreateFunctionAssertFails(t, b)
    \/ FunctionBuilderBegin(t)
    \/ CallBuilderBegin(t)
    \/ \E v \in Returnable(t) : ReturnAddLine(t, v)
    \/ ReturnSetLoc(t)
    \/ ReturnCreateRet(t)
    \/ CallBuilderEnd(t)
    \/ FunctionBuilderEnd(t)
    \/ CreateFunctionEnd(t)

NextMT ==
  \E t \in Threads :
    \/ \E b \in Builders, d \in Decls : CreateFunction(t, b, d)
    \/ FunctionBuilderBegin(t)
    \/ CallBuilderBegin(t)
    \/ \E v \in Returnable(t) : ReturnAddLine(t, v)
    \/ ReturnSetLoc(t)
    \/ ReturnCreateRet(t)
    \/ CallBuilderEnd(t)
    \/ FunctionBuilderEnd(t)
    \/ CreateFunctionEnd(t)

Spec == Init /\ [][Next]_vars

SpecMT == InitMT /\ [][NextMT]_vars

(***************************************************************************)
(* A callback that throws.  The exception leaves fb(...) at line 187 and   *)
(* passes through call_builder, operator() and create_function: none has a *)
(* handler or an object whose destructor restores anything, so lines       *)
(* 189-190, 216 and 229 are not run.                                       *)
(***************************************************************************)
\* a guard object that restores while the stack unwinds
OnUnwind_guarded(kept, restored) == restored

\* what unwinding leaves of a piece of state that a statement after the
\* call would have restored
OnUnwind(kept, restored) == kept

\* the exception reaches a handler in the caller of create_function (the
\* enclosing callback, or the program); the caller goes on from there
CallbackThrows(t) ==
  /\ ~aborted
  /\ AtPc(t, "body")
  /\ LET f    == Top(t)
         rest == SubSeq(stack[t], 1, Len(stack[t]) - 1)
     IN  /\ gen' = [gen EXCEPT ![f.cb_mb] = OnUnwind(@, leave_scope(@))]
         /\ dbg_scope_' = [dbg_scope_ EXCEPT ![f.mb] = OnUnwind(@, RestoredScope(f))]
         /\ current_builder' =
              [current_builder EXCEPT ![Slot(t)] = OnUnwind(@, RestoredBuilder(f))]
         /\ failed' = [failed EXCEPT ![f.mb] = @ \cup {f.fn}]
         /\ stack' = [stack EXCEPT ![t] =
                        IF rest = << >> THEN rest
                        ELSE [rest EXCEPT ![Len(rest)].failed_in = @ \cup {f.fn}]]
  /\ UNCHANGED << owner, aborted, dbg_loc, insert_point, functions, emitted,
                  scope_calls, trace, last_get, built >>

\* no handler anywhere: std::terminate
CallbackThrowsUncaught(t) ==
  /\ ~aborted
  /\ AtPc(t, "body")
  /\ aborted' = TRUE
  /\ UNCHANGED << lifeVars, owner, current_builder, stack, irVars, genVars, last_get >>

\* one thread constructing on one builder
InitOne == InitBuilders /\ owner = [b \in Builders |-> IF b = 1 THEN 1 ELSE Nobody]

NextThrow ==
  \/ \E d \in Decls : CreateFunction(1, 1, d)
  \/ FunctionBuilderBegin(1)
  \/ CallBuilderBegin(1)
  \/ \E v \in Returnable(1) : ReturnAddLine(1, v)
  \/ ReturnSetLoc(1)
  \/ ReturnCreateRet(1)
  \/ CallBuilderEnd(1)
  \/ FunctionBuilderEnd(1)
  \/ CreateFunctionEnd(1)
  \/ CallbackThrows(1)
  \/ CallbackThrowsUncaught(1)

SpecThrow == InitOne /\ [][NextThrow]_vars

(***************************************************************************)
(* module build() &&, line 90.  The ref-qualifier asks for an rvalue       *)
(* expression, std::move(mb).build(), and nothing more: mb stays in scope  *)
(* and every member function can still be called on it.  What the spent    *)
(* builder does then is undefined: either outcome is modelled.             *)
(***************************************************************************)
\* the module build() returns: the listing get() would return
Build(t, b) ==
  /\ CanCall(t, b)
  /\ built[b].n = 0
  /\ built' = [built EXCEPT ![b] = [n |-> 1, listing |-> get(gen[b]),
                                     functions |-> Len(functions[b])]]
  /\ UNCHANGED << failed, owner, aborted, current_builder, stack, irVars, genVars,
                  last_get >>

\* build() on a builder already built: it crashes or it returns
BuildSpent(t, b, crash) ==
  /\ CanCall(t, b)
  /\ built[b].n >= 1
  /\ built[b].n < MaxBuilds
  /\ aborted' = crash
  /\ built' = IF crash THEN built ELSE [built EXCEPT ![b].n = @ + 1]
  /\ UNCHANGED << failed, owner, current_builder, stack, irVars, genVars, last_get >>

\* create_function on a builder already built that crashes; the call that
\* goes through is CreateFunction
CreateFunctionSpent(t, b) ==
  /\ CanCall(t, b)
  /\ built[b].n >= 1
  /\ aborted' = TRUE
  /\ UNCHANGED << lifeVars, owner, current_builder, stack, irVars, genVars, last_get >>

NextBuild ==
  \/ \E d \in Decls : CreateFunction(1, 1, d)
  \/ FunctionBuilderBegin(1)
  \/ CallBuilderBegin(1)
  \/ \E v \in Returnable(1) : ReturnAddLine(1, v)
  \/ ReturnSetLoc(1)
  \/ ReturnCreateRet(1)
  \/ CallBuilderEnd(1)
  \/ FunctionBuilderEnd(1)
  \/ CreateFunctionEnd(1)
  \/ Build(1, 1)
  \/ \E crash \in BOOLEAN : BuildSpent(1, 1, crash)
  \/ CreateFunctionSpent(1, 1)

SpecBuild == InitOne /\ [][NextBuild]_vars

(***************************************************************************)
(* Properties of the source code generator.                                *)
(***************************************************************************)
Lines(b) == gen[b].source_code_

\* C1: the k-th call of add_line on a generator returns k (1 for the first,
\* one more for each later call, whatever enter_scope, leave_scope and get
\* calls come between), and the number of lines appended equals the highest
\* line number returned.
C1_LineNumbersCount ==
  \A b \in Builders :
    /\ Len(Lines(b)) = Len(emitted[b])
    /\ \A k \in 1..Len(emitted[b]) : emitted[b][k].ret = k
    /\ current_line(gen[b]) = Len(Lines(b)) + 1

\* three lines appended, with scope calls and a get in between
C1_Witness ==
  /\ Len(emitted[1]) >= 3
  /\ emitted[1][3].ret = 3
  /\ emitted[1][2].opens # emitted[1][3].opens
  /\ Len(last_get) = 2

\* C2: while the enter_scope / leave_scope calls are balanced (no prefix has
\* more leave_scope than enter_scope calls), each appended line is indented
\* by 4 times the number of scopes open at its add_line call, and the
\* indentation is 4 times the number of open scopes, so never negative.
C2_IndentIsFourPerOpenScope ==
  \A b \in Builders :
    /\ \A k \in 1..Len(emitted[b]) :
         emitted[b][k].balanced =>
           /\ emitted[b][k].opens >= 0
           /\ Lines(b)[k].indent = U32(4 * emitted[b][k].opens)
    /\ scope_calls[b].balanced =>
         /\ U32Small(gen[b].indent_)
         /\ U32Val(gen[b].indent_) = 4 * Opens(scope_calls[b])
         /\ U32Val(gen[b].indent_) >= 0

\* a line at two open scopes, then a line at one open scope
C2_Witness ==
  \E k, j \in 1..Len(emitted[1]) :
    /\ k < j
    /\ emitted[1][k].balanced /\ emitted[1][k].opens = 2
    /\ emitted[1][j].balanced /\ emitted[1][j].opens = 1
    /\ Lines(1)[j].indent = U32(4)

(***************************************************************************)
(* Properties of function construction.                                    *)
(***************************************************************************)
FnIds(b) == 1..Len(functions[b])

\* the activations constructing function f of builder b
Frames(b, f) ==
  {fr \in UNION {{stack[t][i] : i \in 1..Len(stack[t])} : t \in Threads} :
     fr.mb = b /\ fr.fn = f}

\* the declaration line of f is still to be appended
BeforeDecl(b, f) == \E fr \in Frames(b, f) : fr.pc = "cb"

\* the callback of f has completed and call_builder has returned
Completed(b, f) ==
  \A fr \in Frames(b, f) : fr.pc \notin {"cb", "body", "ret_loc", "ret_emit"}

\* the lines of the listing of b appended as `kind` for function f
LinesOfKind(b, kind, f) ==
  {k \in 1..Len(emitted[b]) : emitted[b][k].kind = kind /\ emitted[b][k].fn = f}

FnDecl(fn) == [name |-> fn.name, ret |-> fn.ret, args |-> fn.args]

\* C3: a create_function whose callback completes appends exactly one
\* declaration line and exactly one closing "}" line, and the line of the
\* function's debug subprogram is the line number add_line gave the
\* declaration line, for every function of the builder.
C3_OneDeclOneCloseSubprogramLine ==
  \A b \in Builders : \A f \in FnIds(b) :
    LET decls  == LinesOfKind(b, "decl", f)
        closes == LinesOfKind(b, "close", f)
    IN  /\ Cardinality(decls) = (IF BeforeDecl(b, f) THEN 0 ELSE 1)
        /\ Cardinality(closes) = (IF Completed(b, f) THEN 1 ELSE 0)
        /\ \A k \in decls :
             /\ emitted[b][k].ret = functions[b][f].subprogram.line
             /\ k = functions[b][f].subprogram.line
             /\ Lines(b)[k].text = DeclText(FnDecl(functions[b][f]))
        /\ \A k \in closes : Lines(b)[k].text = "}"

\* a builder with three completed functions, one of them nested in another
C3_Witness ==
  \E b \in Builders :
    /\ Len(functions[b]) = 3
    /\ \A f \in FnIds(b) : Completed(b, f) /\ Frames(b, f) = {}
    /\ \E f \in FnIds(b) : functions[b][f].subprogram.scope # FileScope
    /\ functions[b][3].subprogram.line >= 5

\* the name of the backend value behind a handle: a parameter has the name
\* prepare_argument gave it, a literal prints as its number
HandleName(b, h) ==
  IF h.kind = "arg" THEN functions[b][h.fn].arg_names[h.idx + 1] ELSE to_string(h.idx)

\* the return instructions of builder b, as <<function, position>>
Rets(b) == {<<f, j>> \in FnIds(b) \X (1..MaxLines + 1) : j <= Len(functions[b][f].entry)}

\* the return statements of b whose instruction is still to be emitted
RetsInFlight(b) ==
  {fr \in UNION {{stack[t][i] : i \in 1..Len(stack[t])} : t \in Threads} :
     fr.ret_mb = b /\ fr.pc \in {"ret_loc", "ret_emit"}}

\* C4: the debug location of every emitted return instruction has the line
\* number add_line returned for the "return <name>;" line of that statement:
\* each instruction points at its own statement line, no two at the same.
C4_ReturnLocIsStatementLine ==
  \A b \in Builders :
    /\ \A r \in Rets(b) :
         LET i == functions[b][r[1]].entry[r[2]]
             k == i.loc.line
         IN  /\ k \in 1..Len(Lines(b))
             /\ emitted[b][k].kind = "stmt"
             /\ emitted[b][k].ret = k
             /\ Lines(b)[k].text = "return " \o HandleName(b, i.value) \o ";"
             /\ i.loc.col = 1
    /\ \A r, q \in Rets(b) :
         r # q => functions[b][r[1]].entry[r[2]].loc.line
                    # functions[b][q[1]].entry[q[2]].loc.line
    /\ Cardinality(Rets(b)) + Cardinality(RetsInFlight(b))
         = Cardinality({k \in 1..Len(emitted[b]) : emitted[b][k].kind = "stmt"})

\* a second function with two return statements, both emitted
C4_Witness ==
  \E b \in Builders :
    /\ Len(functions[b]) >= 2
    /\ Len(functions[b][2].entry) = 2
    /\ functions[b][2].entry[2].loc.line >= 5
    /\ functions[b][2].entry[1].value.kind = "arg"
    /\ RetsInFlight(b) = {}

\* the innermost activation of thread t that has installed its scope
\* and not yet restored it
RECURSIVE ScopeOf(_, _)
ScopeOf(fs, b) ==
  IF fs = << >> THEN FileScope
  ELSE LET fr == fs[Len(fs)]
       IN  IF fr.mb = b /\ fr.pc \in {"cb", "body", "ret_loc", "ret_emit", "fb_end"}
             THEN fr.fn
             ELSE ScopeOf(SubSeq(fs, 1, Len(fs) - 1), b)

\* saves and restores nest: the debug scope of a builder is the subprogram of
\* the innermost function under construction on it, the file when none is,
\* and each activation has saved the scope of the activation around it
C5_Lifo ==
  /\ \A b \in Builders : dbg_scope_[b] = ScopeOf(stack[owner[b]], b)
  /\ \A t \in Threads : \A i \in 1..Len(stack[t]) :
       stack[t][i].pc # "fb" =>
         stack[t][i].parent_scope
           = (IF i = 1 THEN FileScope ELSE stack[t][i - 1].fn)

\* when create_function returns, the debug scope is the one of the call
C5_RestoredOnReturn ==
  \A t \in Threads :
    (stack[t] # << >> /\ Len(stack'[t]) = Len(stack[t]) - 1)
      => dbg_scope_'[Top(t).this] = Top(t).scope_at_call

\* C5: after create_function returns, the builder's debug scope is the scope
\* that was current just before the call, whatever the callback did
\* (statements, nested create_function); saves and restores are LIFO.
C5_DebugScopeRestoredLifo == [] C5_Lifo /\ [][C5_RestoredOnReturn]_vars

\* a nested create_function has returned into the body of the outer function
C5_Witness ==
  \E b \in Builders :
    /\ Len(stack[1]) = 1
    /\ Top(1).pc = "body" /\ Top(1).mb = b
    /\ Len(functions[b]) = 2
    /\ functions[b][2].subprogram.scope = 1
    /\ Len(functions[b][2].entry) = 1
    /\ dbg_scope_[b] = 1

\* C6: the thread's current builder is the builder for the duration of
\* create_function and is put back when it returns: null after an outermost
\* create_function, still the builder after a nested one, at any depth.
C6_ContextRestored ==
  \A t \in Threads :
    /\ stack[t] = << >> => current_builder[t] = Null
    /\ stack[t] # << >> => current_builder[t] = Top(t).this
    /\ \A i \in 1..Len(stack[t]) :
         stack[t][i].prev_builder = (IF i = 1 THEN Null ELSE stack[t][i - 1].this)

\* a nested create_function has returned and a statement follows it; and an
\* outermost one has returned before
C6_Witness ==
  \E b \in Builders :
    /\ Len(stack[1]) = 1
    /\ Top(1).pc = "ret_loc" /\ Top(1).this = b
    /\ Len(functions[b]) = 3
    /\ Frames(b, 1) = {} /\ Frames(b, 3) = {}
    /\ functions[b][3].subprogram.scope = 2
    /\ current_builder[1] = b

(***************************************************************************)
(* The guard of create_function.                                           *)
(***************************************************************************)
\* while the context of thread t is a builder, no step touches another
\* builder of t: no line, no scope, no function, no activation, no context
C7_NoStepOnOtherBuilder ==
  \A t \in Threads : \A b \in Builders :
    (owner[b] = t /\ current_builder[t] # Null /\ current_builder[t] # b)
      => /\ gen'[b] = gen[b]
         /\ dbg_scope_'[b] = dbg_scope_[b]
         /\ functions'[b] = functions[b]
         /\ current_builder'[t] # b
         /\ \A i \in 1..Len(stack'[t]) : stack'[t][i].this # b

\* the failing guard changes nothing, and nothing runs after it
C7_RejectionChangesNothing ==
  /\ (aborted' /\ ~aborted)
       => /\ UNCHANGED << current_builder, stack, gen, dbg_scope_, dbg_loc,
                          insert_point, functions >>
          /\ \E t \in Threads : current_builder[t] # Null
  /\ aborted => UNCHANGED vars

\* C7: create_function on builder B while the context of the thread is
\* another builder A is rejected at the guard before any construction step:
\* no line is appended to the listing of A or of B, neither debug scope
\* changes, and the context is not replaced by B.
C7_ForeignBuilderRejected ==
  [][C7_NoStepOnOtherBuilder /\ C7_RejectionChangesNothing]_vars

\* the guard has failed for builder 2 inside a function of builder 1
C7_Witness ==
  /\ aborted
  /\ current_builder[1] = 1
  /\ Len(stack[1]) = 1 /\ Top(1).pc = "body" /\ Top(1).this = 1
  /\ Len(Lines(1)) = 2
  /\ Lines(2) = << >> /\ functions[2] = << >>

(***************************************************************************)
(* Two threads.                                                            *)
(***************************************************************************)
\* the generator after thread t's emissions, made in this order on a
\* generator of its own
RECURSIVE ReplayFrom(_, _)
ReplayFrom(g, tr) ==
  IF tr = << >> THEN g
  ELSE LET e  == Head(tr)
           g1 == CASE e.op = "decl"  -> enter_scope(add_line(g, DeclText(e.d)).gen)
                   [] e.op = "stmt"  -> add_line(g, ReturnText(e.v)).gen
                   [] e.op = "close" -> add_line(leave_scope(g), "}").gen
       IN  ReplayFrom(g1, Tail(tr))

\* C8: with two threads each building on a builder of its own, under every
\* interleaving each thread's context is null or its own builder, every line
\* a thread emits is in its own builder's listing, and each builder's listing
\* and line numbers are those of its thread running alone.
C8_ThreadsDoNotInterfere ==
  /\ \A t \in Threads :
       /\ current_builder[t] \in Owned(t) \cup {Null}
       /\ stack[t] # << >> => current_builder[t] = Top(t).this
  /\ \A b \in Builders :
       /\ \A k \in 1..Len(emitted[b]) :
            emitted[b][k].by = owner[b] /\ emitted[b][k].ret = k
       /\ gen[b] = ReplayFrom(NewGenerator, trace[owner[b]])

\* both threads are inside a return statement of their own function
C8_Witness ==
  /\ AtPc(1, "ret_emit") /\ AtPc(2, "ret_loc")
  /\ Top(1).decl.name = "add" /\ Top(2).decl.name = "id"
  /\ Len(Lines(1)) = 2 /\ Len(Lines(2)) = 2

(***************************************************************************)
(* The listing of functions built one after the other, and of the first.   *)
(***************************************************************************)
TopLevel(b) == {f \in FnIds(b) : functions[b][f].subprogram.scope = FileScope}

\* g is the function created by the create_function call following f's
NextTopLevel(b, f, g) ==
  /\ f \in TopLevel(b) /\ g \in TopLevel(b) /\ f < g
  /\ \A h \in TopLevel(b) : ~(f < h /\ h < g)
  /\ LinesOfKind(b, "decl", g) # {}

\* C9: of two functions built one after the other on a builder, the lines of
\* the first all precede the lines of the second, and the declaration line
\* number of the second, and its debug subprogram line, is the closing-brace
\* line number of the first plus 1.
C9_SequentialFunctionsAdjacent ==
  \A b \in Builders : \A f, g \in FnIds(b) :
    NextTopLevel(b, f, g) =>
      /\ LinesOfKind(b, "close", f) # {}
      /\ LET cf == CHOOSE k \in LinesOfKind(b, "close", f) : TRUE
             dg == CHOOSE k \in LinesOfKind(b, "decl", g) : TRUE
         IN  /\ \A k \in 1..Len(emitted[b]) :
                  /\ emitted[b][k].fn \in f..(g - 1) => k <= cf
                  /\ emitted[b][k].fn >= g => k >= dg
             /\ dg = cf + 1
             /\ emitted[b][dg].ret = emitted[b][cf].ret + 1
             /\ functions[b][g].subprogram.line = emitted[b][cf].ret + 1

\* a function holding a nested function and a statement, then a second one
C9_Witness ==
  \E b \in Builders :
    /\ Len(functions[b]) = 3
    /\ NextTopLevel(b, 1, 3)
    /\ functions[b][3].subprogram.line = 6
    /\ Completed(b, 3) /\ Frames(b, 3) = {}

\* the declaration lines of the functions of Decls, written out
ExpectedDeclText(name) ==
  CASE name = "noop" -> "void noop() {"
    [] name = "id"   -> "i32 id(i32 arg0) {"
    [] name = "add"  -> "i32 add(i32 arg0, i32 arg1) {"

ExpectedArgNames == <<"arg0", "arg1">>

\* i32 add(i32, i32) returning arg0, the only function of builder b
AddExample(b) ==
  /\ Len(functions[b]) = 1
  /\ functions[b][1].name = "add"
  /\ Completed(b, 1)
  /\ Len(functions[b][1].entry) = 1
  /\ functions[b][1].entry[1].value = [kind |-> "arg", fn |-> 1, idx |-> 0]

\* C10: for the first function of a fresh builder the declaration line is
\* "<ret> <name>(<t0> arg0, ..., <t(n-1)> arg(n-1)) {", unindented, with
\* ", " only between parameters and "()" for none; the callback receives
\* arg0 .. arg(n-1) in this order; each statement of its body is indented 4
\* columns; the closing "}" is unindented.  For i32 add(i32, i32) returning
\* arg0 the listing is exactly the three lines, the subprogram line is 1 and
\* the line of the return's debug location is 2.
C10_FirstFunctionListing ==
  \A b \in Builders :
    Len(functions[b]) >= 1 =>
      LET fn == functions[b][1]
      IN  /\ \A k \in LinesOfKind(b, "decl", 1) :
               /\ k = 1
               /\ Lines(b)[1] = [indent |-> U32(0), text |-> ExpectedDeclText(fn.name)]
          /\ \A fr \in Frames(b, 1) :
               fr.pc \in {"body", "ret_loc", "ret_emit", "fb_end", "cf_end"} =>
                 /\ Len(fr.params) = Len(fn.args)
                 /\ \A k \in 1..Len(fr.params) :
                      fr.params[k] = Value([kind |-> "arg", fn |-> 1, idx |-> k - 1],
                                           ExpectedArgNames[k])
          /\ \A k \in LinesOfKind(b, "stmt", 1) : Lines(b)[k].indent = U32(4)
          /\ \A k \in LinesOfKind(b, "close", 1) :
               Lines(b)[k] = [indent |-> U32(0), text |-> "}"]
          /\ AddExample(b) =>
               /\ Render(get(gen[b])) = "i32 add(i32 arg0, i32 arg1) {\n    return arg0;\n}\n"
               /\ Len(get(gen[b])) = 3
               /\ fn.subprogram.line = 1
               /\ fn.entry[1].loc.line = 2

\* i32 add(i32, i32) returning arg0 has been built and create_function
\* has returned
C10_Witness ==
  \E b \in Builders : AddExample(b) /\ stack[1] = << >> /\ Len(Lines(b)) = 3

(***************************************************************************)
(* The order of the effects of a return statement.                         *)
(***************************************************************************)
AllFrames == UNION {{stack[t][i] : i \in 1..Len(stack[t])} : t \in Threads}

\* the lines the return instructions of builder b point at
RetLines(b) == {functions[b][r[1]].entry[r[2]].loc.line : r \in Rets(b)}

\* where a return statement stands: after add_line the line is in the
\* listing, the location is not yet its line and no instruction has it;
\* after SetCurrentDebugLocation the location is its line and still no
\* instruction has it; and a location that is set is a line of the listing
C12_Positions ==
  /\ \A b \in Builders :
       dbg_loc[b] # NoLoc => dbg_loc[b].line \in 1..Len(Lines(b))
  /\ \A fr \in AllFrames :
       fr.pc \in {"ret_loc", "ret_emit"} =>
         /\ fr.line_no \in 1..Len(Lines(fr.ret_mb))
         /\ Lines(fr.ret_mb)[fr.line_no].text = ReturnText(fr.v)
         /\ fr.line_no \notin RetLines(fr.ret_mb)
         /\ (fr.pc = "ret_loc") => dbg_loc[fr.ret_mb].line # fr.line_no
         /\ (fr.pc = "ret_emit") => dbg_loc[fr.ret_mb].line = fr.line_no

\* a step that sets a statement's location, or emits an instruction, refers
\* to a line the listing had before the step
C12_Steps ==
  \A b \in Builders :
    /\ (dbg_loc'[b] # dbg_loc[b] /\ dbg_loc'[b] # NoLoc)
         => /\ dbg_loc'[b].line \in 1..Len(Lines(b))
            /\ gen'[b] = gen[b]
            /\ functions'[b] = functions[b]
    /\ \A f \in FnIds(b) :
         Len(functions'[b][f].entry) > Len(functions[b][f].entry)
           => /\ functions'[b][f].entry[Len(functions'[b][f].entry)].loc = dbg_loc[b]
              /\ dbg_loc[b].line \in 1..Len(Lines(b))
              /\ gen'[b] = gen[b]
              /\ dbg_loc'[b] = dbg_loc[b]

\* C12: in every value-returning return_ the listing line is appended first,
\* then the debug location is set, then the return instruction is emitted;
\* so when a statement's debug location is set, its line is at most the
\* number of lines the listing already has.
C12_TextThenLocationThenInstruction == [] C12_Positions /\ [][C12_Steps]_vars

\* the location of a third statement is set, its instruction not yet emitted
C12_Witness ==
  \E b \in Builders :
    /\ AtPc(1, "ret_emit") /\ Top(1).ret_mb = b
    /\ Top(1).line_no = 4
    /\ dbg_loc[b].line = 4
    /\ Cardinality(Rets(b)) = 2

(***************************************************************************)
(* The state a callback starts in.                                         *)
(***************************************************************************)
\* a function waiting for its declaration line, and a callback that has
\* emitted nothing yet, have an empty location and their own entry block
C14_BeforeFirstStatement ==
  \A fr \in AllFrames :
    fr.pc = "cb" =>
      /\ dbg_loc[fr.mb] = NoLoc
      /\ insert_point[fr.mb] = fr.fn
      /\ functions[fr.mb][fr.fn].entry = << >>

\* the step that calls the callback
C14_CallbackInvoked ==
  \A t \in Threads :
    (AtPc(t, "cb") /\ stack'[t] # << >> /\ stack'[t][Len(stack'[t])].pc = "body")
      => LET fr == stack'[t][Len(stack'[t])]
         IN  /\ dbg_loc'[fr.mb] = NoLoc
             /\ insert_point'[fr.mb] = fr.fn
             /\ functions'[fr.mb][fr.fn].entry = << >>
             /\ fr.fn = Len(functions'[fr.mb])

\* C14: when the callback of a create_function is invoked, also of a second
\* or later function built after statements that set a debug location, the
\* IR builder's debug location is empty and its insertion point is the fresh
\* entry block of the function under construction.
C14_CallbackStartsClean == [] C14_BeforeFirstStatement /\ [][C14_CallbackInvoked]_vars

\* the callback of a second function has just been invoked, after a return
\* statement of the first function had set a location
C14_Witness ==
  \E b \in Builders :
    /\ AtPc(1, "body") /\ Top(1).mb = b /\ Top(1).fn = 2
    /\ Len(functions[b][1].entry) = 1
    /\ functions[b][1].entry[1].loc.line = 2
    /\ functions[b][2].entry = << >>
    /\ dbg_loc[b] = NoLoc /\ insert_point[b] = 2

(***************************************************************************)
(* The scope pair of the function builder.                                 *)
(***************************************************************************)
\* the one line of kind `kind` of function f
TheLine(b, kind, f) == CHOOSE k \in LinesOfKind(b, kind, f) : TRUE

\* C15: the function builder balances its scope pair: after a
\* create_function whose callback completes the indentation is the one
\* before the call; the declaration line and the closing "}" line are written
\* at that indentation, every line the callback emits itself at 4 more.
C15_ScopePairBalanced ==
  /\ \A fr \in AllFrames :
       /\ fr.pc \in {"fb_end", "cf_end"} =>
            /\ gen[fr.mb].indent_ = fr.indent_at_call
            /\ Lines(fr.mb)[TheLine(fr.mb, "close", fr.fn)].indent = fr.indent_at_call
       /\ fr.pc \in {"body", "ret_loc", "ret_emit", "fb_end", "cf_end"} =>
            Lines(fr.mb)[TheLine(fr.mb, "decl", fr.fn)].indent = fr.indent_at_call
  /\ \A t \in Threads :
       AtPc(t, "body") => gen[Top(t).mb].indent_ = U32Add(Top(t).indent_at_call, 4)
  /\ \A b \in Builders : \A f \in FnIds(b) :
       LinesOfKind(b, "decl", f) # {} =>
         LET at == Lines(b)[TheLine(b, "decl", f)].indent
         IN  /\ \A k \in LinesOfKind(b, "close", f) : Lines(b)[k].indent = at
             /\ \A k \in LinesOfKind(b, "stmt", f) : Lines(b)[k].indent = U32Add(at, 4)
  /\ \A b \in Builders :
       stack[owner[b]] = << >> => gen[b].indent_ = U32(0)

\* a function nested at 4 columns has returned: its two lines are at 4, its
\* statement at 8, and the outer body goes on at 4
C15_Witness ==
  \E b \in Builders :
    /\ Len(stack[1]) = 1 /\ Top(1).pc = "body" /\ Top(1).mb = b
    /\ Len(functions[b]) = 2
    /\ LinesOfKind(b, "close", 2) # {}
    /\ Lines(b)[TheLine(b, "close", 2)].indent = U32(4)
    /\ \E k \in LinesOfKind(b, "stmt", 2) : Lines(b)[k].indent = U32(8)
    /\ \E k \in LinesOfKind(b, "stmt", 1) : k > TheLine(b, "close", 2)
    /\ gen[b].indent_ = U32(4)

(***************************************************************************)
(* Statements of an outer body after a nested create_function.             *)
(***************************************************************************)
\* C16: nested construction is LIFO for everything a statement depends on:
\* every return instruction sits in the entry block of the function whose
\* body emitted its statement line, and carries that function's subprogram
\* as its debug scope; so does a return_ an outer body emits after a nested
\* create_function has returned.
C16_StatementInOwnFunction ==
  \A b \in Builders : \A r \in Rets(b) :
    LET i == functions[b][r[1]].entry[r[2]]
    IN  /\ i.loc.scope = emitted[b][i.loc.line].fn
        /\ r[1] = emitted[b][i.loc.line].fn

(***************************************************************************)
(* The listing only grows.                                                 *)
(***************************************************************************)
\* the listing p is the beginning of the listing q, line for line with the
\* same leading whitespace and text
IsPrefix(p, q) == Len(p) <= Len(q) /\ \A k \in 1..Len(p) : p[k] = q[k]

\* what an earlier get() returned begins what get() returns now
C17_EarlierGetIsPrefix == IsPrefix(last_get, get(gen[1]))

\* no step changes a line already appended; a get() changes nothing else
C17_LinesKept ==
  /\ \A b \in Builders : IsPrefix(Lines(b), Lines(b)')
  /\ last_get' # last_get =>
       /\ last_get' = get(gen[1])
       /\ UNCHANGED << lifeVars, owner, aborted, current_builder, stack, irVars, genVars >>

\* C17: the listing is append-only: the text get() returned at an earlier
\* point is a prefix of the text it returns at any later point; no later
\* enter_scope, leave_scope or add_line changes the text or the leading
\* whitespace of a line already appended, and get() itself changes no state.
C17_ListingAppendOnly == [] C17_EarlierGetIsPrefix /\ [][C17_LinesKept]_vars

\* get() returned one line written inside a scope; the scope was left and
\* two more lines were appended since
C17_Witness ==
  /\ Len(last_get) = 1 /\ last_get[1].indent = U32(4)
  /\ Len(Lines(1)) = 3 /\ Lines(1)[3].indent = U32(0)
  /\ scope_calls[1].leaves >= 1

(***************************************************************************)
(* leave_scope with no scope open.                                         *)
(***************************************************************************)
\* 4 * n mod 2^32 for a small n of either sign, as an unsigned
Wrapped(n) == IF n >= 0 THEN U32(4 * n) ELSE [hi |-> Limb - 1, lo |-> Limb + 4 * n]

\* 2^32 - 4
UMaxLess4 == [hi |-> Limb - 1, lo |-> Limb - 4]

\* C18: an unbalanced leave_scope is not detected and raises no error: the
\* unsigned 32-bit indentation wraps to 2^32 - 4 instead of becoming
\* negative, and a following enter_scope brings it back to 0.
C18_UnbalancedLeaveWraps ==
  /\ ~aborted
  /\ gen[1].indent_ = Wrapped(Opens(scope_calls[1]))
  /\ gen[1].indent_.hi \in 0..Limb - 1 /\ gen[1].indent_.lo \in 0..Limb - 1
  /\ Opens(scope_calls[1]) = -1 => gen[1].indent_ = UMaxLess4
  /\ Opens(scope_calls[1]) = 0 => gen[1].indent_ = U32(0)

\* leave_scope with no scope open, then enter_scope: the indentation is 0
\* again
C18_Witness ==
  /\ scope_calls[1].leaves = 1 /\ scope_calls[1].enters = 1
  /\ ~scope_calls[1].balanced
  /\ gen[1].indent_ = U32(0)

(***************************************************************************)
(* A callback that throws.                                                 *)
(***************************************************************************)
\* thread t leaves a create_function by an exception in this step
Thrown(t) ==
  /\ AtPc(t, "body")
  /\ Len(stack'[t]) = Len(stack[t]) - 1

\* the callbacks of builder b that were called and have not returned
Running(b) ==
  {i \in 1..Len(stack[owner[b]]) :
     /\ stack[owner[b]][i].mb = b
     /\ stack[owner[b]][i].pc \in {"body", "ret_loc", "ret_emit"}}

\* the step in which the exception leaves create_function
C13_ThrowRestoresNothing ==
  \A t \in Threads :
    Thrown(t) =>
      LET f == Top(t)
          b == f.mb
      IN  /\ dbg_scope_'[b] = dbg_scope_[b]
          /\ dbg_scope_'[b] # f.parent_scope
          /\ dbg_scope_'[b] \in failed'[b]
          /\ f.failed_in = {} => dbg_scope_'[b] = f.fn
          /\ gen'[b] = gen[b]
          /\ failed[b] = {} => gen'[b].indent_ = U32Add(f.indent_at_call, 4)
          /\ emitted'[b] = emitted[b]
          /\ current_builder'[Slot(t)] = b
          /\ f.prev_builder = Null => current_builder'[Slot(t)] # f.prev_builder

\* what stays of it: no closing line, one unit of indentation per failure
C13_FailureStays ==
  \A b \in Builders :
    /\ \A f \in failed[b] : LinesOfKind(b, "close", f) = {}
    /\ owner[b] \in Threads =>
         gen[b].indent_ = U32(4 * (Cardinality(Running(b)) + Cardinality(failed[b])))

C11_BuildExactlyOnce ==
  \A b \in Builders :
    /\ built[b].n <= 1
    /\ built[b].n >= 1 =>
         /\ Len(functions[b]) = built[b].functions
         /\ IsPrefix(built[b].listing, Lines(b))

====
